---- MODULE Spec2Model ----
(***************************************************************************)
(* Pulse-Check: the ratio computations of analysis.py, the three prompt    *)
(* calls and their orchestration, the lazily initialised client of         *)
(* llm_client.py, and the sidebar and the run button of app.py.            *)
(*                                                                         *)
(* Numbers are Python's: ints of any size and IEEE 754 doubles, with the   *)
(* rounding, the signed zero, the underflow and the overflow of the        *)
(* operations the code applies to them.                                    *)
(***************************************************************************)
EXTENDS Integers, Sequences, FiniteSets, TLC

VARIABLES
    environ,      \* os.environ: LLM_PROVIDER and the API keys
    llm_client,   \* llm_client._llm_client: <<>> (None) or <<client>>
    pc,           \* where the running entry point is blocked
    entry,        \* the entry point that is running or ran last
    args,         \* the input records the form layer passes
    frame,        \* local variables of the running entry point
    calls,        \* the call_llm invocations of the current run, in order
    result,       \* what the entry point handed to its caller
    runs,         \* entry-point invocations so far in this process
    session_state \* st.session_state and the widget values of the last rerun

vars ==
    <<environ, llm_client, pc, entry, args, frame, calls, result, runs, session_state>>

----------------------------------------------------------------------------
(* Natural numbers of any size, as the sequence of their base-2^15 limbs,  *)
(* lowest first, without high zero limbs (0 is the empty sequence).  They  *)
(* carry Python's int and the mantissas of its float.                      *)

Base == 32768

Abs(n) == IF n < 0 THEN -n ELSE n

Max(a, b) == IF a >= b THEN a ELSE b

RECURSIVE NNorm(_)
NNorm(a) == IF a # <<>> /\ a[Len(a)] = 0 THEN NNorm(SubSeq(a, 1, Len(a) - 1)) ELSE a

RECURSIVE NFromInt(_)
NFromInt(n) == IF n = 0 THEN <<>> ELSE <<n % Base>> \o NFromInt(n \div Base)

Limb(a, i) == IF i <= Len(a) THEN a[i] ELSE 0

RECURSIVE NCmpFrom(_, _, _)
NCmpFrom(a, b, i) ==
    IF i = 0 THEN 0
    ELSE IF a[i] < b[i] THEN -1 ELSE IF a[i] > b[i] THEN 1 ELSE NCmpFrom(a, b, i - 1)

\* -1, 0 or 1 as a < b, a = b or a > b
NCmp(a, b) ==
    IF Len(a) < Len(b) THEN -1 ELSE IF Len(a) > Len(b) THEN 1 ELSE NCmpFrom(a, b, Len(a))

RECURSIVE NAddFrom(_, _, _, _)
NAddFrom(a, b, i, carry) ==
    IF i > Len(a) /\ i > Len(b) THEN (IF carry = 0 THEN <<>> ELSE <<carry>>)
    ELSE LET t == Limb(a, i) + Limb(b, i) + carry
         IN  <<t % Base>> \o NAddFrom(a, b, i + 1, t \div Base)

NAdd(a, b) == NAddFrom(a, b, 1, 0)

RECURSIVE NSubFrom(_, _, _, _)
NSubFrom(a, b, i, borrow) ==
    IF i > Len(a) THEN <<>>
    ELSE LET t == a[i] - Limb(b, i) - borrow
         IN  <<IF t < 0 THEN t + Base ELSE t>> \o NSubFrom(a, b, i + 1, IF t < 0 THEN 1 ELSE 0)

\* a - b for a >= b
NSub(a, b) == NNorm(NSubFrom(a, b, 1, 0))

RECURSIVE NMulSmallFrom(_, _, _, _)
NMulSmallFrom(a, k, i, carry) ==
    IF i > Len(a) THEN (IF carry = 0 THEN <<>> ELSE <<carry>>)
    ELSE LET t == a[i] * k + carry
         IN  <<t % Base>> \o NMulSmallFrom(a, k, i + 1, t \div Base)

\* a * k for 0 <= k < Base
NMulSmall(a, k) == IF k = 0 THEN <<>> ELSE NMulSmallFrom(a, k, 1, 0)

Zeros(n) == [i \in 1..n |-> 0]

\* acc + a * (the limbs of b from the j-th on, in place)
RECURSIVE NMulFrom(_, _, _, _)
NMulFrom(a, b, j, acc) ==
    IF j > Len(b) THEN acc
    ELSE NMulFrom(a, b, j + 1,
                  NAdd(acc, IF b[j] = 0 THEN <<>> ELSE Zeros(j - 1) \o NMulSmall(a, b[j])))

NMul(a, b) == IF a = <<>> \/ b = <<>> THEN <<>> ELSE NMulFrom(a, b, 1, <<>>)

\* the limbs of a from the i-th down divided by k, after the quotient limbs q
\* and the remainder of the limbs above, which with the i-th limb makes t
RECURSIVE NDivSmallFrom(_, _, _, _, _)
RECURSIVE NDivSmallStep(_, _, _, _, _)
NDivSmallFrom(a, k, i, q, rem) ==
    IF i = 0 THEN <<q, rem>> ELSE NDivSmallStep(a, k, i, q, rem * Base + a[i])

NDivSmallStep(a, k, i, q, t) ==
    IF q = <<>> /\ t < k THEN NDivSmallFrom(a, k, i - 1, <<>>, t)
    ELSE NDivSmallFrom(a, k, i - 1, <<t \div k>> \o q, t % k)

\* <<a div k, a mod k>> for 0 < k < Base
NDivSmall(a, k) == NDivSmallFrom(a, k, Len(a), <<>>, 0)

RECURSIVE Pow2(_)
Pow2(n) == IF n = 0 THEN 1 ELSE 2 * Pow2(n - 1)

RECURSIVE BitLen(_)
BitLen(n) == IF n = 0 THEN 0 ELSE 1 + BitLen(n \div 2)

NBitLen(a) == IF a = <<>> THEN 0 ELSE 15 * (Len(a) - 1) + BitLen(a[Len(a)])

\* a * 2^n
NShl(a, n) ==
    IF a = <<>> THEN <<>> ELSE Zeros(n \div 15) \o NMulSmall(a, Pow2(n % 15))

\* a div 2^n
NShr(a, n) ==
    IF n \div 15 >= Len(a) THEN <<>>
    ELSE NDivSmall(SubSeq(a, n \div 15 + 1, Len(a)), Pow2(n % 15))[1]

\* bit n of a (bit 0 is the lowest)
NBit(a, n) == (Limb(a, n \div 15 + 1) \div Pow2(n % 15)) % 2

\* whether a mod 2^n is not 0
NLowBits(a, n) ==
    \/ \E i \in 1..(IF n \div 15 < Len(a) THEN n \div 15 ELSE Len(a)) : a[i] # 0
    \/ n \div 15 < Len(a) /\ a[n \div 15 + 1] % Pow2(n % 15) # 0

RECURSIVE TrailingZeros(_)
TrailingZeros(n) == IF n % 2 = 1 THEN 0 ELSE 1 + TrailingZeros(n \div 2)

\* the number of low zero bits of a # 0
RECURSIVE NTrailingZeros(_, _)
NTrailingZeros(a, i) ==
    IF a[i] = 0 THEN 15 + NTrailingZeros(a, i + 1) ELSE TrailingZeros(a[i])

\* <<r div v, r mod v>> from an estimate q >= r div v with its product p = q * v
RECURSIVE QCorrect(_, _, _, _)
QCorrect(r, v, q, p) ==
    IF NCmp(p, r) = 1 THEN QCorrect(r, v, q - 1, NSub(p, v)) ELSE <<q, NSub(r, p)>>

\* the estimate of r div v from the top limbs of r and v, at most Base - 1
QEstimate(r, v) ==
    IF (Limb(r, Len(v) + 1) * Base + r[Len(v)]) \div v[Len(v)] >= Base THEN Base - 1
    ELSE (Limb(r, Len(v) + 1) * Base + r[Len(v)]) \div v[Len(v)]

QFrom(r, v, q) == QCorrect(r, v, q, NMulSmall(v, q))

\* one limb of a long division: <<r div v, r mod v>> for r < v * Base and v
\* with its top limb at least Base / 2
QDigit(r, v) == IF NCmp(r, v) = -1 THEN <<0, r>> ELSE QFrom(r, v, QEstimate(r, v))

\* the limbs of a from the i-th down divided by v, after the quotient limbs q
\* and the remainder r < v of the limbs above; d is the quotient limb and the
\* remainder at the i-th limb
RECURSIVE NDivFrom(_, _, _, _, _)
RECURSIVE NDivStep(_, _, _, _, _)
NDivFrom(a, v, i, q, r) ==
    IF i = 0 THEN <<q, r>> ELSE NDivStep(a, v, i, q, QDigit(NNorm(<<a[i]>> \o r), v))

NDivStep(a, v, i, q, d) ==
    IF q = <<>> /\ d[1] = 0 THEN NDivFrom(a, v, i - 1, <<>>, d[2])
    ELSE NDivFrom(a, v, i - 1, <<d[1]>> \o q, d[2])

\* <<q, r div 2^s>>
Unshifted(qr, s) == <<qr[1], NShr(qr[2], s)>>

\* <<a div v, a mod v>> for a and v shifted left by s, the top limb of v at
\* least Base / 2
NDivLong(a, v, s) ==
    IF Len(a) < Len(v) THEN <<<<>>, NShr(a, s)>>
    ELSE Unshifted(NDivFrom(a, v, Len(a) - Len(v) + 1, <<>>,
                            SubSeq(a, Len(a) - Len(v) + 2, Len(a))), s)

\* <<q, the natural rem>>
Widened(qr) == <<qr[1], NFromInt(qr[2])>>

\* <<a div b, a mod b>> for b # 0
NDivMod(a, b) ==
    IF Len(b) = 1 THEN Widened(NDivSmall(a, b[1]))
    ELSE NDivLong(NShl(a, 15 - BitLen(b[Len(b)])), NShl(b, 15 - BitLen(b[Len(b)])),
                  15 - BitLen(b[Len(b)]))

\* q, or q + 1 when the part dropped from q is above a half (half and rest),
\* or is a half and q is odd
NRoundUp(q, half, rest) ==
    IF half /\ (rest \/ NBit(q, 0) = 1) THEN NAdd(q, <<1>>) ELSE q

\* (a + f) / 2^k rounded to the nearest natural, ties to the even one, where
\* 0 < f < 1 if sticky and f = 0 if not
NRoundShr(a, k, sticky) ==
    NRoundUp(NShr(a, k), k > 0 /\ NBit(a, k - 1) = 1,
             sticky \/ (k > 1 /\ NLowBits(a, k - 1)))

\* q rounded up as the remainder 2 * rem compares with the divisor (c)
NRoundCmp(q, c) == NRoundUp(q, c >= 0, c = 1)

NRoundQuot(qr, b) == NRoundCmp(qr[1], NCmp(NShl(qr[2], 1), b))

\* a / b rounded to the nearest natural, ties to the even one
NRoundDiv(a, b) == NRoundQuot(NDivMod(a, b), b)

NSquare(a) == NMul(a, a)

\* 10^n
RECURSIVE NPow10(_)
NPow10(n) ==
    IF n = 0 THEN <<1>>
    ELSE IF n % 2 = 1 THEN NMulSmall(NPow10(n - 1), 10)
    ELSE NSquare(NPow10(n \div 2))

\* the decimal digits of a # 0, highest first
RECURSIVE NDigitsOf(_)
RECURSIVE NDigitsStep(_)
NDigitsOf(a) == IF a = <<>> THEN <<>> ELSE NDigitsStep(NDivSmall(a, 10))

NDigitsStep(qr) == Append(NDigitsOf(qr[1]), qr[2])

\* the decimal digits of a, highest first (0 is <<0>>)
Digits(a) == IF a = <<>> THEN <<0>> ELSE NDigitsOf(a)

\* the natural a sequence of decimal digits writes
RECURSIVE NFromDigits(_)
NFromDigits(s) ==
    IF s = <<>> THEN <<>>
    ELSE NAdd(NMulSmall(NFromDigits(SubSeq(s, 1, Len(s) - 1)), 10), NFromInt(s[Len(s)]))

----------------------------------------------------------------------------
(* Python numbers.  An int is (-1)^neg * m; a float is the IEEE 754 double *)
(* (-1)^neg * m * 2^e with m odd (or m = 0: 0.0 and -0.0), inf or nan.     *)
(* ZeroDivisionError and OverflowError are carried as values: an operation *)
(* on a raised operand passes the exception on.                            *)

Num(t, neg, m, e) == [t |-> t, neg |-> neg, m |-> m, e |-> e]

\* the int (-1)^neg * n
IntOf(neg, n) == Num("int", neg /\ n # <<>>, n, 0)

\* the int i
R(i) == IntOf(i < 0, NFromInt(Abs(i)))

Zero == R(0)

ZeroDivisionError == Num("ZeroDivisionError", FALSE, <<>>, 0)

OverflowError == Num("OverflowError", FALSE, <<>>, 0)

IsFault(x) == x.t \in {"ZeroDivisionError", "OverflowError"}

Inf(neg) == Num("inf", neg, <<>>, 0)

NaN == Num("nan", FALSE, <<>>, 0)

FloatZero(neg) == Num("float", neg, <<>>, 0)

IsFinite(x) == x.t \in {"int", "float"}

\* x == 0 (0, 0.0 and -0.0)
IsZero(x) == IsFinite(x) /\ x.m = <<>>

\* the float (-1)^neg * r * 2^e with the z low zero bits of r moved to e
Normal(neg, r, e, z) == Num("float", neg, NShr(r, z), e + z)

\* the double (-1)^neg * r * 2^e for an r of at most 53 bits: inf from 2^1024 on
Packed(neg, r, e) ==
    IF r = <<>> THEN FloatZero(neg)
    ELSE IF NBitLen(r) + e > 1024 THEN Inf(neg)
    ELSE Normal(neg, r, e, NTrailingZeros(r, 1))

\* Double with the k low bits of n rounded away
DoubleAt(neg, n, e, sticky, k) == Packed(neg, NRoundShr(n, k, sticky), e + k)

\* the double nearest to (-1)^neg * (n + f) * 2^e, where 0 < f < 1 if sticky
\* and f = 0 if not: 53 bits, ties to even, gradual underflow below 2^-1022,
\* inf from 2^1024 on
Double(neg, n, e, sticky) ==
    DoubleAt(neg, n, e, sticky, Max(Max(NBitLen(n) - 53, -1074 - e), 0))

DoubleQuot(neg, qr, e) == Double(neg, qr[1], e, qr[2] # <<>>)

\* Quotient with a shifted left by s, so that the quotient has 56 bits or more
QuotientAt(neg, a, b, e, s) == DoubleQuot(neg, NDivMod(NShl(a, s), b), e - s)

\* the double nearest to (-1)^neg * (a / b) * 2^e, for naturals a, b # 0
Quotient(neg, a, b, e) ==
    QuotientAt(neg, a, b, e, Max(56 + NBitLen(b) - NBitLen(a), 0))

\* a result that raises when it is beyond the doubles: OverflowError in place
\* of inf
Finite(f, raises) == IF raises /\ f.t = "inf" THEN OverflowError ELSE f

\* float(x): an int becomes the nearest double, or OverflowError
ToFloat(x) == IF x.t # "int" THEN x ELSE Finite(Double(x.neg, x.m, 0, FALSE), TRUE)

\* the exception an operation on x and y passes on, if any
Raised(x, y) == IF IsFault(x) THEN x ELSE y

\* the operands of a binary operation: two ints as they are, else both as
\* floats
Operands(x, y) ==
    IF x.t = "int" /\ y.t = "int" THEN <<x, y>> ELSE [i \in 1..2 |-> ToFloat(<<x, y>>[i])]

\* the sign of a number other than nan: -2, -1, 0, 1, 2 for -inf, negative,
\* zero, positive, inf
Sign(x) ==
    IF x.t = "inf" THEN (IF x.neg THEN -2 ELSE 2)
    ELSE IF x.m = <<>> THEN 0 ELSE IF x.neg THEN -1 ELSE 1

\* the exponent of the power of two above |x|, for a finite x # 0
Magnitude(x) == NBitLen(x.m) + x.e

\* -1, 0, 1 as |x| < |y|, |x| = |y|, |x| > |y|, for finite x and y
CmpAbs(x, y) ==
    IF x.m = <<>> \/ y.m = <<>>
    THEN (IF x.m = y.m THEN 0 ELSE IF x.m = <<>> THEN -1 ELSE 1)
    ELSE IF Magnitude(x) # Magnitude(y)
    THEN (IF Magnitude(x) < Magnitude(y) THEN -1 ELSE 1)
    ELSE NCmp(NShl(x.m, Max(x.e - y.e, 0)), NShl(y.m, Max(y.e - x.e, 0)))

\* -1, 0, 1 as x < y, x == y, x > y, for numbers other than nan
Cmp(x, y) ==
    IF Sign(x) # Sign(y) THEN (IF Sign(x) < Sign(y) THEN -1 ELSE 1)
    ELSE IF Sign(x) \in {-2, 0, 2} THEN 0
    ELSE Sign(x) * CmpAbs(x, y)

\* truth value of a number: x != 0
Truthy(x) == ~IsZero(x)

\* x > 0
Pos(x) == x.t # "nan" /\ Cmp(x, Zero) = 1

\* x >= y
Geq(x, y) == x.t # "nan" /\ y.t # "nan" /\ Cmp(x, y) >= 0

\* x == y
Eq(x, y) == x.t # "nan" /\ y.t # "nan" /\ Cmp(x, y) = 0

\* (-1)^xneg * a + (-1)^yneg * b as a sign and a natural at the exponent e
Signed(xneg, a, yneg, b, e) ==
    IF xneg = yneg THEN [neg |-> xneg, n |-> NAdd(a, b), e |-> e]
    ELSE IF NCmp(a, b) = 0 THEN [neg |-> FALSE, n |-> <<>>, e |-> e]
    ELSE IF NCmp(a, b) = 1 THEN [neg |-> xneg, n |-> NSub(a, b), e |-> e]
    ELSE [neg |-> yneg, n |-> NSub(b, a), e |-> e]

\* x + (-1)^(y.neg # yneg) * y for finite numbers, at the lower exponent
Aligned(x, y, yneg) ==
    Signed(x.neg, NShl(x.m, Max(x.e - y.e, 0)), yneg, NShl(y.m, Max(y.e - x.e, 0)),
           IF x.e <= y.e THEN x.e ELSE y.e)

\* the exact sum s as an int, or rounded to a double
SumOf(s, int) == IF int THEN IntOf(s.neg, s.n) ELSE Double(s.neg, s.n, s.e, FALSE)

\* x + (-1)^flip * y for two ints or two floats
SumOperands(x, y, flip) ==
    IF IsFault(x) \/ IsFault(y) THEN OverflowError
    ELSE IF x.t = "nan" \/ y.t = "nan" THEN NaN
    ELSE IF x.t = "inf" /\ y.t = "inf" THEN (IF x.neg = (y.neg # flip) THEN x ELSE NaN)
    ELSE IF x.t = "inf" THEN x
    ELSE IF y.t = "inf" THEN Inf(y.neg # flip)
    ELSE SumOf(Aligned(x, y, y.neg # flip), x.t = "int")

SumPair(p, flip) == SumOperands(p[1], p[2], flip)

\* x + (-1)^flip * y: exact on ints; with a float, in double arithmetic
Sum(x, y, flip) ==
    IF IsFault(x) \/ IsFault(y) THEN Raised(x, y) ELSE SumPair(Operands(x, y), flip)

\* x + y
Add(x, y) == Sum(x, y, FALSE)

\* x - y
Sub(x, y) == Sum(x, y, TRUE)

\* the exact product (-1)^neg * n * 2^e as an int, or rounded to a double
ProductOf(neg, n, e, int) == IF int THEN IntOf(neg, n) ELSE Double(neg, n, e, FALSE)

\* x * y for two ints or two floats
MulOperands(x, y) ==
    IF IsFault(x) \/ IsFault(y) THEN OverflowError
    ELSE IF x.t = "nan" \/ y.t = "nan" THEN NaN
    ELSE IF x.t = "inf" \/ y.t = "inf"
    THEN (IF IsZero(x) \/ IsZero(y) THEN NaN ELSE Inf(x.neg # y.neg))
    ELSE ProductOf(x.neg # y.neg, NMul(x.m, y.m), x.e + y.e, x.t = "int")

MulPair(p) == MulOperands(p[1], p[2])

\* x * y: exact on ints; with a float, in double arithmetic
Mul(x, y) == IF IsFault(x) \/ IsFault(y) THEN Raised(x, y) ELSE MulPair(Operands(x, y))

\* x / y for two ints or two floats: raises when y is zero; the correctly
\* rounded quotient, which for two ints raises beyond the doubles
DivOperands(x, y) ==
    IF IsFault(x) \/ IsFault(y) THEN OverflowError
    ELSE IF IsZero(y) THEN ZeroDivisionError
    ELSE IF x.t = "nan" \/ y.t = "nan" THEN NaN
    ELSE IF x.t = "inf" THEN (IF y.t = "inf" THEN NaN ELSE Inf(x.neg # y.neg))
    ELSE IF y.t = "inf" \/ IsZero(x) THEN FloatZero(x.neg # y.neg)
    ELSE Finite(Quotient(x.neg # y.neg, x.m, y.m, x.e - y.e), x.t = "int")

DivPair(p) == DivOperands(p[1], p[2])

\* x / y
Div(x, y) == IF IsFault(x) \/ IsFault(y) THEN Raised(x, y) ELSE DivPair(Operands(x, y))

\* |x| * 10^j for a finite x and any integer j, rounded to the nearest
\* natural, ties to even
Scaled(x, j) ==
    IF j >= 0 THEN NRoundShr(NMul(NShl(x.m, Max(x.e, 0)), NPow10(j)), Max(-x.e, 0), FALSE)
    ELSE NRoundDiv(NShl(x.m, Max(x.e, 0)), NShl(NPow10(-j), Max(-x.e, 0)))

\* the double nearest to (-1)^neg * d * 10^j (strtod)
Decimal(neg, d, j) ==
    IF d = <<>> THEN FloatZero(neg)
    ELSE Quotient(neg, NMul(d, NPow10(Max(j, 0))), NPow10(Max(-j, 0)), 0)

\* round(x, nd) for 0 <= nd: an int is returned as it is; a float is rounded
\* at the nd-th decimal of its binary value, ties to even, and the result is
\* the double nearest to that decimal
Round(x, nd) ==
    IF x.t # "float" \/ x.e >= 0 THEN x ELSE Finite(Decimal(x.neg, Scaled(x, nd), -nd), TRUE)

----------------------------------------------------------------------------
(* The text of a number: sign, digits before the point, digits after it    *)
(* (none: no point is written), a decimal exponent (<<>>: none), or a word *)
(* in place of the digits, and a suffix.                                   *)

Text(sign, whole, frac, exp, word, suffix) ==
    [sign |-> sign, whole |-> whole, frac |-> frac, exp |-> exp,
     word |-> word, suffix |-> suffix]

SignOf(x) == IF x.neg THEN "-" ELSE ""

\* -1, 0, 1 as |x| is below, at or above 10^d, for a finite x
CmpPow10(x, d) ==
    NCmp(NMul(NShl(x.m, Max(x.e, 0)), NPow10(Max(-d, 0))),
         NShl(NPow10(Max(d, 0)), Max(-x.e, 0)))

\* the d with 10^(d-1) <= |x| < 10^d, for a finite x # 0.  With
\* 2^(h-1) <= |x| < 2^h, the d of 2^(h-1) is floor((h - 1) * log10(2)) + 1 (for
\* every h of a double, 0.30103 is near enough to log10(2)), and that of x is
\* the same or the next
DecPtFrom(x, d) == IF CmpPow10(x, d) >= 0 THEN d + 1 ELSE d

DecPt(x) == DecPtFrom(x, ((Magnitude(x) - 1) * 30103) \div 100000 + 1)

\* whether the decimal n * 10^j reads back as x
ReadsAs(x, n, j) == Decimal(x.neg, n, j) = x

\* the k-digit decimals n * 10^(d-k) that read back as x, among the nearest
\* to x and, for a power of two, whose upper neighbour is twice as far as its
\* lower one, the next above it
Shortest(x, d, k) ==
    { n \in { NAdd(Scaled(x, k - d), c) :
                 c \in IF x.m = <<1>> THEN {<<>>, <<1>>} ELSE {<<>>} } :
          ReadsAs(x, n, d - k) }

\* the least of a set of naturals
NLeast(S) == CHOOSE n \in S : \A o \in S : NCmp(n, o) <= 0

RECURSIVE StripZeros(_)
StripZeros(s) ==
    IF Len(s) > 1 /\ s[Len(s)] = 0 THEN StripZeros(SubSeq(s, 1, Len(s) - 1)) ELSE s

\* the digits ds with the decimal point after the first p of them, as
\* float.__repr__ lays them out: positional for -4 < p <= 16, else
\* scientific
Layout10(sign, ds, p) ==
    IF p > 16 \/ p < -3
    THEN Text(sign, <<ds[1]>>, SubSeq(ds, 2, Len(ds)), <<p - 1>>, "", "")
    ELSE IF p <= 0 THEN Text(sign, <<0>>, Zeros(-p) \o ds, <<>>, "", "")
    ELSE IF Len(ds) <= p THEN Text(sign, ds \o Zeros(p - Len(ds)), <<0>>, <<>>, "", "")
    ELSE Text(sign, SubSeq(ds, 1, p), SubSeq(ds, p + 1, Len(ds)), <<>>, "", "")

\* the k digits all of a decimal below 10^d laid out; a decimal rounded up
\* to 10^k has k + 1 digits
ReprDigits(sign, all, d, k) == Layout10(sign, StripZeros(all), d + Len(all) - k)

\* x written with k digits
ReprOf(x, d, k) == ReprDigits(SignOf(x), Digits(NLeast(Shortest(x, d, k))), d, k)

\* x written with as few digits as read back as x; 17 always do
ReprAt(x, d) ==
    ReprOf(x, d, CHOOSE k \in 1..17 :
                     Shortest(x, d, k) # {} /\ \A j \in 1..(k - 1) : Shortest(x, d, j) = {})

\* float.__repr__: the shortest decimal that reads back as x
float_repr(x) ==
    IF x.t = "nan" THEN Text("", <<>>, <<>>, <<>>, "nan", "")
    ELSE IF x.t = "inf" THEN Text(SignOf(x), <<>>, <<>>, <<>>, "inf", "")
    ELSE IF x.m = <<>> THEN Text(SignOf(x), <<0>>, <<0>>, <<>>, "", "")
    ELSE ReprAt(x, DecPt(x))

\* int.__repr__
int_repr(x) == Text(SignOf(x), Digits(x.m), <<>>, <<>>, "", "")

\* the digits ds of a number of tenths written with one decimal
Tenths(sign, ds, suffix) ==
    Text(sign, IF Len(ds) = 1 THEN <<0>> ELSE SubSeq(ds, 1, Len(ds) - 1),
         <<ds[Len(ds)]>>, <<>>, "", suffix)

\* f"{y:.1f}%" for a float y
PercentOf(y) ==
    IF IsFault(y) THEN y
    ELSE IF y.t = "nan" THEN Text("", <<>>, <<>>, <<>>, "nan", "%")
    ELSE IF y.t = "inf" THEN Text(SignOf(y), <<>>, <<>>, <<>>, "inf", "%")
    ELSE Tenths(SignOf(y), Digits(Scaled(y, 1)), "%")

\* f"{x:.1%}": float(x) * 100 in double arithmetic, written with one decimal
\* (the binary value rounded, ties to even) and a percent sign
Percent(x) == PercentOf(Mul(x, Num("float", FALSE, <<25>>, 2)))

\* the number a JSON number reads back as: an int without point and
\* exponent, else the double nearest to the decimal
float_parse(t) ==
    IF t.word = "NaN" THEN NaN
    ELSE IF t.word = "Infinity" THEN Inf(t.sign = "-")
    ELSE IF t.frac = <<>> /\ t.exp = <<>> THEN IntOf(t.sign = "-", NFromDigits(t.whole))
    ELSE Decimal(t.sign = "-", NFromDigits(t.whole \o t.frac),
                 (IF t.exp = <<>> THEN 0 ELSE t.exp[1]) - Len(t.frac))

----------------------------------------------------------------------------
(* analysis.py: the ratio computations.                                    *)

Days == R(365)

\* IfElse0 with the numerator as the fallback
IfElse0_numerator(c, n, d) == IF Truthy(c) THEN Div(n, d) ELSE n

\* "n / d if c else 0": the zero guard of financial_analysis
IfElse0(c, n, d) == IF Truthy(c) THEN Div(n, d) ELSE Zero

\* "n / d if c > 0 else 0": the guard of analyze_marketing_performance
IfPosElse0(c, n, d) == IF Pos(c) THEN Div(n, d) ELSE Zero

\* dupont_roe without the leverage lever
dupont_roe_unlevered(profit_margin, total_asset_turnover, equity_multiplier) ==
    Mul(profit_margin, total_asset_turnover)

\* line 116: the product of the three DuPont levers
dupont_roe(profit_margin, total_asset_turnover, equity_multiplier) ==
    Mul(Mul(profit_margin, total_asset_turnover), equity_multiplier)

\* the assignments of financial_analysis, lines 91-128, in source order
FinancialOrder ==
    << "Current_Assets", "Total_Assets", "Current_Liab", "NWC", "current_ratio",
       "quick_ratio", "cash_ratio", "interval_measure", "total_debt_ratio",
       "equity_multiplier", "ltd_ratio", "tie", "cash_coverage",
       "total_asset_turnover", "nwc_turnover", "fixed_asset_turnover", "gross_margin",
       "profit_margin", "roa", "roe", "dupont_roe", "market_cap", "pe_ratio",
       "market_to_book", "price_sales", "enterprise_value", "ev_ebitda",
       "inv_turnover", "days_sales_inv", "rec_turnover", "days_sales_rec" >>

\* financial_analysis, lines 91-128: the right-hand side of the assignment to
\* k, over the arguments a and the variables l assigned before it
financial_assignment(a, l, k) ==
    CASE k = "Current_Assets" ->
             Add(Add(a.cash_equivalents, a.accounts_receivable), a.inventory)
      [] k = "Total_Assets" ->
             Add(Add(l["Current_Assets"], a.fixed_assets_ppe), a.intangible_assets)
      [] k = "Current_Liab" -> Add(a.accounts_payable, a.accrued_expenses)
      [] k = "NWC" -> Sub(l["Current_Assets"], l["Current_Liab"])
      [] k = "current_ratio" ->
             IfElse0(l["Current_Liab"], l["Current_Assets"], l["Current_Liab"])
      [] k = "quick_ratio" ->
             IfElse0(l["Current_Liab"], Sub(l["Current_Assets"], a.inventory),
                     l["Current_Liab"])
      [] k = "cash_ratio" ->
             IfElse0(l["Current_Liab"], a.cash_equivalents, l["Current_Liab"])
      [] k = "interval_measure" ->
             IfElse0(a.COGS, l["Current_Assets"], Div(a.COGS, Days))
      [] k = "total_debt_ratio" ->
             IfElse0(l["Total_Assets"], Sub(l["Total_Assets"], a.shareholders_equity),
                     l["Total_Assets"])
      [] k = "equity_multiplier" ->
             IfElse0(a.shareholders_equity, l["Total_Assets"], a.shareholders_equity)
      [] k = "ltd_ratio" ->
             IfElse0(Add(a.long_term_debt, a.shareholders_equity), a.long_term_debt,
                     Add(a.long_term_debt, a.shareholders_equity))
      [] k = "tie" -> IfElse0(a.Interest_Expense, a.EBIT, a.Interest_Expense)
      [] k = "cash_coverage" -> IfElse0(a.Interest_Expense, a.EBITDA, a.Interest_Expense)
      [] k = "total_asset_turnover" ->
             IfElse0(l["Total_Assets"], a.Revenue, l["Total_Assets"])
      [] k = "nwc_turnover" -> IfElse0(l["NWC"], a.Revenue, l["NWC"])
      [] k = "fixed_asset_turnover" ->
             IfElse0(a.fixed_assets_ppe, a.Revenue, a.fixed_assets_ppe)
      [] k = "gross_margin" -> IfElse0(a.Revenue, a.Gross_Profit, a.Revenue)
      [] k = "profit_margin" -> IfElse0(a.Revenue, a.Net_Income, a.Revenue)
      [] k = "roa" -> IfElse0(l["Total_Assets"], a.Net_Income, l["Total_Assets"])
      [] k = "roe" -> IfElse0(a.shareholders_equity, a.Net_Income, a.shareholders_equity)
      [] k = "dupont_roe" ->
             dupont_roe(l["profit_margin"], l["total_asset_turnover"],
                        l["equity_multiplier"])
      [] k = "market_cap" -> Mul(a.stock_price, a.shares_outstanding)
      [] k = "pe_ratio" ->
             IF Truthy(a.Net_Income) /\ Truthy(a.shares_outstanding)
             THEN Div(a.stock_price, Div(a.Net_Income, a.shares_outstanding)) ELSE Zero
      [] k = "market_to_book" ->
             IfElse0(a.shareholders_equity, l["market_cap"], a.shareholders_equity)
      [] k = "price_sales" -> IfElse0(a.Revenue, l["market_cap"], a.Revenue)
      [] k = "enterprise_value" ->
             Sub(Add(l["market_cap"], a.long_term_debt), a.cash_equivalents)
      [] k = "ev_ebitda" -> IfElse0(a.EBITDA, l["enterprise_value"], a.EBITDA)
      [] k = "inv_turnover" -> IfElse0(a.inventory, a.COGS, a.inventory)
      [] k = "days_sales_inv" -> IfElse0(l["inv_turnover"], Days, l["inv_turnover"])
      [] k = "rec_turnover" ->
             IfElse0(a.accounts_receivable, a.Revenue, a.accounts_receivable)
      [] k = "days_sales_rec" -> IfElse0(l["rec_turnover"], Days, l["rec_turnover"])

\* the variables a sequence of assignments names
Assigned(order) == {order[i] : i \in DOMAIN order}

\* the index of the first assignment of order that raises, Len(order) + 1 when
\* none does; l gives the value of each right-hand side
Raising(l, order) ==
    CHOOSE i \in 1..(Len(order) + 1) :
        /\ i <= Len(order) => IsFault(l[order[i]])
        /\ \A j \in 1..(i - 1) : ~IsFault(l[order[j]])

\* the variables of a function body that ran up to its n-th assignment: an
\* assignment that raises is the last one, and holds the exception
Executed(l, order, n) ==
    [k \in {order[j] : j \in 1..(IF n > Len(order) THEN Len(order) ELSE n)} |-> l[k]]

\* financial_analysis, lines 91-128: the aggregates and the unrounded ratios
financial_ratios(a) ==
    LET l[k \in Assigned(FinancialOrder)] == financial_assignment(a, l, k)
    IN  Executed(l, FinancialOrder, Raising(l, FinancialOrder))

\* the leaves of the financial report in the order of the dict literal, lines
\* 130-143: section, key, the variable it is taken from, and how it is
\* written, round(variable, ndigits)
FinancialReport ==
    << <<"Liquidity", "Current", "current_ratio", "round", 2>>,
       <<"Liquidity", "Quick", "quick_ratio", "round", 2>>,
       <<"Liquidity", "Cash", "cash_ratio", "round", 2>>,
       <<"Liquidity", "Interval", "interval_measure", "round", 2>>,
       <<"Solvency", "Debt Ratio", "total_debt_ratio", "round", 2>>,
       <<"Solvency", "Multiplier", "equity_multiplier", "round", 2>>,
       <<"Solvency", "LTD", "ltd_ratio", "round", 2>>,
       <<"Solvency", "TIE", "tie", "round", 2>>,
       <<"Solvency", "Cash Coverage", "cash_coverage", "round", 2>>,
       <<"Turnover", "Total Asset", "total_asset_turnover", "round", 2>>,
       <<"Turnover", "NWC", "nwc_turnover", "round", 2>>,
       <<"Turnover", "Fixed Asset", "fixed_asset_turnover", "round", 2>>,
       <<"Profitability", "Gross Margin", "gross_margin", "round", 4>>,
       <<"Profitability", "Profit Margin", "profit_margin", "round", 4>>,
       <<"Profitability", "ROA", "roa", "round", 4>>,
       <<"Profitability", "ROE", "roe", "round", 4>>,
       <<"DuPont_Breakdown", "Profitability_Lever", "profit_margin", "round", 4>>,
       <<"DuPont_Breakdown", "Efficiency_Lever", "total_asset_turnover", "round", 2>>,
       <<"DuPont_Breakdown", "Leverage_Lever", "equity_multiplier", "round", 2>>,
       <<"DuPont_Breakdown", "Calculated_ROE", "dupont_roe", "round", 4>>,
       <<"Market", "P/E", "pe_ratio", "round", 2>>,
       <<"Market", "Market/Book", "market_to_book", "round", 2>>,
       <<"Market", "Price/Sales", "price_sales", "round", 4>>,
       <<"Market", "EV", "enterprise_value", "round", 2>>,
       <<"Market", "EV_EBITDA", "ev_ebitda", "round", 2>>,
       <<"Operational", "Inv_Turnover", "inv_turnover", "round", 2>>,
       <<"Operational", "DSI", "days_sales_inv", "round", 2>>,
       <<"Operational", "Rec_Turnover", "rec_turnover", "round", 2>>,
       <<"Operational", "DSO", "days_sales_rec", "round", 2>> >>

\* ltv guarded by "if churn_rate" instead of "if churn_rate > 0"
ltv_nonzero_guard(unit_margin, churn_rate) == IfElse0(churn_rate, unit_margin, churn_rate)

\* line 167: the lifetime value
ltv(unit_margin, churn_rate) == IfPosElse0(churn_rate, unit_margin, churn_rate)

\* line 190: the label of the unit economics
Status(ltv_cac_ratio) ==
    IF Geq(ltv_cac_ratio, R(3)) THEN "Healthy" ELSE "Needs Optimization"

\* the assignments of analyze_marketing_performance, lines 158-173, in source
\* order
MarketingOrder ==
    << "cac", "lost_customers", "churn_rate", "retention_rate", "starting_rev", "nrr",
       "ltv", "ltv_cac_ratio", "payback_period", "marketing_efficiency_ratio",
       "marketing_spend_pct" >>

\* analyze_marketing_performance, lines 158-173: the right-hand side of the
\* assignment to k, over the arguments a and the variables l assigned before it
marketing_assignment(a, l, k) ==
    CASE k = "cac" ->
             IfPosElse0(a.new_customers_acquired, a.marketing_spend,
                        a.new_customers_acquired)
      [] k = "lost_customers" ->
             Sub(Add(a.total_customers_start_period, a.new_customers_acquired),
                 a.total_customers_end_period)
      [] k = "churn_rate" ->
             IfPosElse0(a.total_customers_start_period, l["lost_customers"],
                        a.total_customers_start_period)
      [] k = "retention_rate" -> Sub(R(1), l["churn_rate"])
      [] k = "starting_rev" ->
             Mul(a.total_customers_start_period, a.avg_revenue_per_user_monthly)
      [] k = "nrr" ->
             IfPosElse0(l["starting_rev"],
                        Sub(Add(l["starting_rev"], a.expansion_revenue),
                            Mul(l["lost_customers"], a.avg_revenue_per_user_monthly)),
                        l["starting_rev"])
      [] k = "ltv" ->
             ltv(Mul(a.avg_revenue_per_user_monthly, a.gross_margin_pct), l["churn_rate"])
      [] k = "ltv_cac_ratio" -> IfPosElse0(l["cac"], l["ltv"], l["cac"])
      [] k = "payback_period" ->
             IF Pos(a.avg_revenue_per_user_monthly) /\ Pos(a.gross_margin_pct)
             THEN Div(l["cac"], Mul(a.avg_revenue_per_user_monthly, a.gross_margin_pct))
             ELSE Zero
      [] k = "marketing_efficiency_ratio" ->
             IfPosElse0(a.marketing_spend, a.Revenue, a.marketing_spend)
      [] k = "marketing_spend_pct" -> IfPosElse0(a.Revenue, a.marketing_spend, a.Revenue)

\* analyze_marketing_performance, lines 158-173: the unrounded metrics
marketing_ratios(a) ==
    LET l[k \in Assigned(MarketingOrder)] == marketing_assignment(a, l, k)
    IN  Executed(l, MarketingOrder, Raising(l, MarketingOrder))

\* the leaves of the marketing report in the order of the dict literal, lines
\* 175-192: round(variable, ndigits), f"{variable:.1%}", or the Status label
MarketingReport ==
    << <<"Acquisition", "CAC", "cac", "round", 2>>,
       <<"Acquisition", "Marketing_Spend_Pct", "marketing_spend_pct", ".1%", 1>>,
       <<"Acquisition", "Marketing_Efficiency_Ratio", "marketing_efficiency_ratio",
         "round", 2>>,
       <<"Retention_and_Value", "Retention_Rate", "retention_rate", ".1%", 1>>,
       <<"Retention_and_Value", "Churn_Rate", "churn_rate", ".1%", 1>>,
       <<"Retention_and_Value", "Net_Revenue_Retention", "nrr", ".1%", 1>>,
       <<"Retention_and_Value", "LTV", "ltv", "round", 2>>,
       <<"Unit_Economics", "LTV_CAC_Ratio", "ltv_cac_ratio", "round", 2>>,
       <<"Unit_Economics", "Payback_Period_Months", "payback_period", "round", 1>>,
       <<"Unit_Economics", "Status", "ltv_cac_ratio", "Status", 0>> >>

\* the value a report holds for one leaf
Leaf(l, row) ==
    CASE row[4] = "round" -> Round(l[row[3]], row[5])
      [] row[4] = ".1%" -> Percent(l[row[3]])
      [] row[4] = "Status" -> Status(l[row[3]])

\* the nested dict of a report: its sections and, in each, its keys
Report(l, rows) ==
    [ sec \in {rows[i][1] : i \in DOMAIN rows} |->
          [ key \in {rows[i][2] : i \in {j \in DOMAIN rows : rows[j][1] = sec}} |->
                Leaf(l, rows[CHOOSE i \in DOMAIN rows :
                                 rows[i][1] = sec /\ rows[i][2] = key]) ] ]

\* financial_analysis, lines 130-143: the rounded report
financial_results(l) == Report(l, FinancialReport)

\* analyze_marketing_performance, lines 175-192: the report
marketing_results(l) == Report(l, MarketingReport)

\* whether evaluating the ratios raised
Raises(l) == \E k \in DOMAIN l : IsFault(l[k])

\* the exception that leaves the function: the one of the assignment that
\* raised
Raised1(l) == l[CHOOSE k \in DOMAIN l : IsFault(l[k])].t

----------------------------------------------------------------------------
(* llm_client.py: the process-wide client.                                 *)

\* Python's None, and an unassigned local: the empty tuple; a value v is <<v>>
None == <<>>

\* A string the code transforms is the sequence of its characters; the names
\* of the four providers:
gemini == <<"g", "e", "m", "i", "n", "i">>

openai == <<"o", "p", "e", "n", "a", "i">>

ollama == <<"o", "l", "l", "a", "m", "a">>

deepseek == <<"d", "e", "e", "p", "s", "e", "e", "k">>

\* MODEL_CONFIG, lines 15-20: the providers call_llm dispatches on
Providers == {gemini, openai, ollama, deepseek}

UpperCase ==
    << "A", "B", "C", "D", "E", "F", "G", "H", "I", "J", "K", "L", "M",
       "N", "O", "P", "Q", "R", "S", "T", "U", "V", "W", "X", "Y", "Z" >>

LowerCase ==
    << "a", "b", "c", "d", "e", "f", "g", "h", "i", "j", "k", "l", "m",
       "n", "o", "p", "q", "r", "s", "t", "u", "v", "w", "x", "y", "z" >>

\* str.lower(): every upper-case letter becomes its lower-case one
Lower(s) ==
    [ i \in DOMAIN s |->
          IF \E k \in DOMAIN UpperCase : UpperCase[k] = s[i]
          THEN LowerCase[CHOOSE k \in DOMAIN UpperCase : UpperCase[k] = s[i]]
          ELSE s[i] ]

\* os.getenv(name, default): the default stands in for an unset variable
\* only; a variable set to the empty string is the empty string
getenv(env, name, default) == IF env[name] = None THEN default ELSE env[name][1]

\* os.getenv("LLM_PROVIDER", "gemini").lower(), lines 28 and 74
llm_provider(env) == Lower(getenv(env, "LLM_PROVIDER", gemini))

\* the class of the object _init_llm builds for a provider
ClientClass(p) ==
    CASE p = gemini -> "GenerativeModel"
      [] p = ollama -> "ollama"
      [] OTHER -> "OpenAI"

\* the API key _init_llm reads for a provider; "" stands for what "not
\* api_key" rejects: an unset variable and an empty one
ApiKey(env, p) ==
    CASE p = gemini ->
             IF getenv(env, "GOOGLE_API_KEY", "") # ""
             THEN getenv(env, "GOOGLE_API_KEY", "")
             ELSE getenv(env, "GEMINI_API_KEY", "")
      [] p = openai -> getenv(env, "OPENAI_API_KEY", "")
      [] p = deepseek -> getenv(env, "DEEPSEEK_API_KEY", "")
      [] OTHER -> ""

\* _init_llm that assigns a client before it checks the key
init_llm_assigns_first(env) ==
    LET p == llm_provider(env)
    IN  IF p \notin Providers THEN [error |-> "ValueError", client |-> None]
        ELSE [ error |-> IF p # ollama /\ ApiKey(env, p) = "" THEN "ValueError" ELSE "",
               client |-> <<[provider |-> p, api_key |-> ApiKey(env, p)]>> ]

\* _init_llm: the client it assigns, or the error it raises
\* (the provider packages are taken to be installed)
init_llm(env) ==
    LET p == llm_provider(env)
    IN  IF p \notin Providers THEN [error |-> "ValueError", client |-> None]
        ELSE IF p # ollama /\ ApiKey(env, p) = ""
        THEN [error |-> "ValueError", client |-> None]
        ELSE [error |-> "",
              client |-> <<[provider |-> p, api_key |-> ApiKey(env, p)]>>]

\* call_llm up to the request: lazy initialisation, then the dispatch on the
\* provider, which uses the method of that provider on whatever client there is
call_llm(env, client) ==
    LET p == llm_provider(env)
        init == IF client = None THEN init_llm(env) ELSE [error |-> "", client |-> client]
        b == IF init.error # "" THEN [error |-> init.error, sent |-> FALSE]
             ELSE IF p \notin Providers THEN [error |-> "ValueError", sent |-> FALSE]
             ELSE IF ClientClass(init.client[1].provider) # ClientClass(p)
             THEN [error |-> "AttributeError", sent |-> FALSE]
             ELSE [error |-> "", sent |-> TRUE]
    IN  [ error |-> b.error, client |-> init.client, sent |-> b.sent,
          init_called |-> client = None ]

----------------------------------------------------------------------------
(* analysis.py: the prompt calls and the three entry points.  A run is     *)
(* carried as a record m = [pc, frame, calls, result, client]; an action   *)
(* commits it to the variables.                                            *)

\* the locals of the entry points, all unassigned
EmptyFrame ==
    [ financial_ratios |-> None, financial_results |-> None,
      marketing_ratios |-> None, marketing_results |-> None,
      financial_metrics |-> None, financial_report |-> None,
      marketing_metrics |-> None, marketing_report |-> None,
      ceo_report |-> None ]

NoResult == [status |-> "none", error |-> "", value |-> None]

\* an exception leaving the entry point: nothing is returned
raise(m, err) ==
    [m EXCEPT !.pc = "done",
              !.result = [status |-> "raised", error |-> err, value |-> None]]

\* the leaves of a report dict in insertion order, which is the order
\* json.dumps writes them in
Layout(results) ==
    IF "Liquidity" \in DOMAIN results THEN FinancialReport ELSE MarketingReport

\* the leaves that are strings: the four percentages and the Status
StringKeys ==
    {MarketingReport[i][2] : i \in {j \in DOMAIN MarketingReport :
                                        MarketingReport[j][4] # "round"}}

\* the JSON text of a number: str(int), float.__repr__, and the words
\* Infinity, -Infinity and NaN (json.encoder, allow_nan)
JsonNumber(x) ==
    IF x.t = "int" THEN int_repr(x)
    ELSE IF x.t = "nan" THEN Text("", <<>>, <<>>, <<>>, "NaN", "")
    ELSE IF x.t = "inf" THEN Text(SignOf(x), <<>>, <<>>, <<>>, "Infinity", "")
    ELSE float_repr(x)

\* json.dumps(results, indent=2), lines 25 and 50: one entry per leaf, in
\* insertion order, a number as its JSON text and a string as it is
dumps(results) ==
    LET layout == Layout(results)
    IN  [ i \in DOMAIN layout |->
              LET sec == layout[i][1]
                  key == layout[i][2]
              IN  <<sec, key,
                    IF key \in StringKeys THEN results[sec][key]
                    ELSE JsonNumber(results[sec][key])>> ]

\* json.loads: the report a serialized text reads back as
loads(text) ==
    [ sec \in {text[i][1] : i \in DOMAIN text} |->
          [ key \in {text[i][2] : i \in {j \in DOMAIN text : text[j][1] = sec}} |->
                LET i == CHOOSE j \in DOMAIN text : text[j][1] = sec /\ text[j][2] = key
                IN  IF key \in StringKeys THEN text[i][3] ELSE float_parse(text[i][3]) ] ]

\* the {json.dumps(results, indent=2)} part of a prompt; the CEO prompt has none
PromptData(data) == IF data = <<>> THEN <<>> ELSE dumps(data[1])

\* what follows a call_llm that ended with err ("": it did not raise), the call
\* being logged in n: the run waits for the answer, or the error leaves
\* through the caller
Called(n, err) == IF err = "" THEN [n EXCEPT !.pc = "await"] ELSE raise(n, err)

\* the call b of call_llm as the run logs it
Sent(m, env, template, data, reports, b) ==
    Called([m EXCEPT !.calls =
                         Append(@, [ template |-> template, data |-> data,
                                     json |-> PromptData(data), reports |-> reports,
                                     provider |-> llm_provider(env),
                                     init_called |-> b.init_called,
                                     client |-> b.client, sent |-> b.sent,
                                     status |-> IF b.error = "" THEN "pending"
                                                ELSE "raised",
                                     response |-> "", error |-> b.error ]),
                     !.client = b.client],
           b.error)

\* "return call_llm(prompt)" of the three construct_prompt functions: the call
\* is logged; an error of call_llm leaves through the caller, else the run waits
send(m, env, template, data, reports) ==
    Sent(m, env, template, data, reports, call_llm(env, m.client))

\* construct_prompt_financial that re-rounds the levers of the dict it was
\* handed to two decimals before serializing it
construct_prompt_financial_rerounding(m, env, results) ==
    LET d == results.DuPont_Breakdown
        changed ==
            [results EXCEPT !.DuPont_Breakdown =
                [d EXCEPT !.Profitability_Lever = Round(@, 2),
                          !.Calculated_ROE = Round(@, 2)]]
    IN  send([m EXCEPT !.frame.financial_results = <<changed>>],
             env, "CFO", <<changed>>, <<>>)

\* lines 9-26: the CFO template around json.dumps(results)
construct_prompt_financial(m, env, results) == send(m, env, "CFO", <<results>>, <<>>)

\* lines 29-51: the CMO template around json.dumps(results)
construct_prompt_marketing(m, env, results) == send(m, env, "CMO", <<results>>, <<>>)

\* construct_prompt_ceo with the financial narrative in both places
construct_prompt_ceo_same(m, env, financial_report, marketing_report) ==
    send(m, env, "CEO", <<>>, <<financial_report, financial_report>>)

\* lines 54-76: the CEO template around the two narrative reports
construct_prompt_ceo(m, env, financial_report, marketing_report) ==
    send(m, env, "CEO", <<>>, <<financial_report, marketing_report>>)

\* financial_analysis, lines 144-145: the report r of the ratios l goes to the
\* CFO call
financial_analysis_report(m, env, l, r) ==
    construct_prompt_financial(
        [m EXCEPT !.frame.financial_ratios = <<l>>, !.frame.financial_results = <<r>>],
        env, r)

\* financial_analysis, lines 130-145: the report of the ratios l, then the CFO
\* call; an assignment that raised leaves the function with its exception
financial_analysis_from(m, env, l) ==
    IF Raises(l) THEN raise(m, Raised1(l))
    ELSE financial_analysis_report(m, env, l, financial_results(l))

\* financial_analysis, lines 91-145: ratios, report, then the CFO call
financial_analysis_call(m, env, a) == financial_analysis_from(m, env, financial_ratios(a))

\* analyze_marketing_performance, lines 193-194: the report r of the metrics l
\* goes to the CMO call
analyze_marketing_performance_report(m, env, l, r) ==
    construct_prompt_marketing(
        [m EXCEPT !.frame.marketing_ratios = <<l>>, !.frame.marketing_results = <<r>>],
        env, r)

\* analyze_marketing_performance, lines 175-194: the report of the metrics l,
\* then the CMO call; an assignment that raised leaves the function with its
\* exception
analyze_marketing_performance_from(m, env, l) ==
    IF Raises(l) THEN raise(m, Raised1(l))
    ELSE analyze_marketing_performance_report(m, env, l, marketing_results(l))

\* analyze_marketing_performance, lines 158-194: metrics, report, then the CMO call
analyze_marketing_performance_call(m, env, a) ==
    analyze_marketing_performance_from(m, env, marketing_ratios(a))

\* the arguments of analyze_marketing_performance: the marketing form and the
\* Revenue of the financial form (app.py 280-283, analysis.py 222-226)
MarketingArgs(a) == [Revenue |-> a.financial.Revenue] @@ a.marketing

\* a value handed to the caller
return(m, v) ==
    [m EXCEPT !.pc = "done",
              !.result = [status |-> "returned", error |-> "", value |-> <<v>>]]

\* the code that runs when the pending call returns text t, up to the next
\* call or the return of the entry point
resume(m, env, e, a, t) ==
    LET k == m.calls[Len(m.calls)].template
        f == m.frame
    IN  CASE k = "CFO" /\ e = "financial_analysis" ->
                 \* line 146
                 return(m, <<f.financial_results[1], t>>)
          [] k = "CFO" /\ e = "analyze_business" ->
                 \* lines 213-226
                 analyze_marketing_performance_call(
                     [m EXCEPT !.frame.financial_metrics = f.financial_results,
                               !.frame.financial_report = <<t>>],
                     env, MarketingArgs(a))
          [] k = "CMO" /\ e = "analyze_marketing_performance" ->
                 \* line 195
                 return(m, <<f.marketing_results[1], t>>)
          [] k = "CMO" /\ e = "analyze_business" ->
                 \* lines 222-228
                 construct_prompt_ceo(
                     [m EXCEPT !.frame.marketing_metrics = f.marketing_results,
                               !.frame.marketing_report = <<t>>],
                     env, f.financial_report[1], t)
          [] OTHER ->
                 \* lines 228-236
                 return([m EXCEPT !.frame.ceo_report = <<t>>],
                        [ financial_metrics |-> f.financial_metrics[1],
                          financial_report |-> f.financial_report[1],
                          marketing_metrics |-> f.marketing_metrics[1],
                          marketing_report |-> f.marketing_report[1],
                          ceo_report |-> t ])

\* propagate with the error of a call swallowed in analyze_business: the run
\* goes on with an empty narrative
propagate_swallow(m, env, e, a, err) ==
    IF e = "analyze_business" /\ m.calls[Len(m.calls)].template # "CEO"
    THEN resume(m, env, e, a, "")
    ELSE raise(m, err)

\* propagate with the entries computed so far returned on a failure
propagate_partial(m, env, e, a, err) ==
    IF e = "analyze_business" /\ m.frame.financial_metrics # None
    THEN return(m, [ financial_metrics |-> m.frame.financial_metrics[1],
                     financial_report |-> m.frame.financial_report[1] ])
    ELSE raise(m, err)

\* propagate with the metrics handed back, without a narrative, when the call
\* of a single-report entry point fails
propagate_metrics(m, env, e, a, err) ==
    CASE e = "financial_analysis" -> return(m, <<m.frame.financial_results[1], "">>)
      [] e = "analyze_marketing_performance" ->
             return(m, <<m.frame.marketing_results[1], "">>)
      [] OTHER -> raise(m, err)

\* propagate with one retry of the failed call
propagate_retry(m, env, e, a, err) ==
    LET c == m.calls[Len(m.calls)]
    IN  IF Cardinality({i \in DOMAIN m.calls : m.calls[i].template = c.template}) < 2
        THEN send(m, env, c.template, c.data, c.reports)
        ELSE raise(m, err)

\* the code that runs when the pending call raises err: no handler in
\* analysis.py, the error leaves the entry point
propagate(m, env, e, a, err) == raise(m, err)

----------------------------------------------------------------------------
(* The arguments of the entry points.                                      *)

\* the values of one field
Vals(S) == {R(i) : i \in S}

\* the float a decimal literal n/d writes (0.65 is Lit(65, 100)): the double
\* nearest to it
Lit(n, d) == Div(R(n), R(d))

\* small amounts: every guarded denominator non-zero
FinancialSample ==
    [ Revenue |-> R(3), COGS |-> R(2), Gross_Profit |-> R(1),
      Sales_and_Marketing |-> R(0), Research_and_Development |-> R(0),
      General_and_Administrative |-> R(0), EBITDA |-> R(2),
      Depreciation_and_Amortization |-> R(0), EBIT |-> R(1),
      Interest_Expense |-> R(1), Net_Income |-> R(1),
      cash_equivalents |-> R(1), accounts_receivable |-> R(1),
      inventory |-> R(1), fixed_assets_ppe |-> R(2),
      intangible_assets |-> R(0), accounts_payable |-> R(1),
      accrued_expenses |-> R(0), long_term_debt |-> R(1),
      shareholders_equity |-> R(1), stock_price |-> Lit(2, 1),
      shares_outstanding |-> R(1) ]

\* the values the financial form starts with (app.py 119-146)
FinancialForm ==
    [ Revenue |-> R(1200000), COGS |-> R(420000), Gross_Profit |-> R(780000),
      Sales_and_Marketing |-> R(200000), Research_and_Development |-> R(120000),
      General_and_Administrative |-> R(150000), EBITDA |-> R(310000),
      Depreciation_and_Amortization |-> R(40000), EBIT |-> R(270000),
      Interest_Expense |-> R(12000), Net_Income |-> R(203820),
      cash_equivalents |-> R(250000), accounts_receivable |-> R(95000),
      inventory |-> R(180000), fixed_assets_ppe |-> R(400000),
      intangible_assets |-> R(100000), accounts_payable |-> R(60000),
      accrued_expenses |-> R(25000), long_term_debt |-> R(350000),
      shareholders_equity |-> R(600000), stock_price |-> Lit(45, 1),
      shares_outstanding |-> R(50000) ]

\* every amount 0, one share
FinancialZero ==
    [ k \in DOMAIN FinancialSample |-> IF k = "shares_outstanding" THEN R(1) ELSE R(0) ]

\* every amount 1
FinancialOnes == [ k \in DOMAIN FinancialSample |-> R(1) ]

\* 5e-324, the smallest positive double
MinDouble == Num("float", FALSE, <<1>>, -1074)

\* 2**1024, the least power of two beyond the doubles
Huge == Num("int", FALSE, Zeros(68) \o <<16>>, 0)

\* the parameters of financial_analysis (lines 79-86): zero, positive and
\* negative amounts around the small sample, each guarded denominator at 0,
\* the values of the form, and amounts at the ends of the range of a double;
\* the four expense fields are read by no ratio
FinancialInputs ==
    { [FinancialSample EXCEPT !.Revenue = v[1], !.COGS = v[2], !.Net_Income = v[3],
                              !.accrued_expenses = v[4], !.shareholders_equity = v[5],
                              !.inventory = v[6]] :
          v \in Vals({0, 3}) \X Vals({0, 2}) \X Vals({0, 1}) \X Vals({-1, 0})
                \X Vals({-1, 0, 1}) \X Vals({0, 1}) }
    \cup { [FinancialSample EXCEPT ![k] = R(0)] :
               k \in {"Interest_Expense", "EBITDA", "fixed_assets_ppe",
                      "accounts_receivable", "shares_outstanding", "long_term_debt",
                      "cash_equivalents"} }
    \cup { FinancialZero,
           [FinancialZero EXCEPT !.Revenue = R(3), !.Net_Income = R(1)],
           \* 0 / -1: a negative zero
           [FinancialZero EXCEPT !.Gross_Profit = R(1), !.EBIT = R(1),
                                 !.accounts_payable = R(1), !.stock_price = Lit(2, 1)],
           FinancialForm,
           [FinancialForm EXCEPT !.Revenue = R(0)],
           [FinancialForm EXCEPT !.Net_Income = R(-203820), !.stock_price = Lit(0, 1)],
           [FinancialForm EXCEPT !.Revenue = R(2675), !.Net_Income = R(5),
                                 !.shareholders_equity = R(1000)],
           [FinancialOnes EXCEPT !.COGS = MinDouble],
           [FinancialOnes EXCEPT !.COGS = MinDouble, !.inventory = R(4)],
           [FinancialSample EXCEPT !.shares_outstanding = Huge],
           [FinancialSample EXCEPT !.stock_price = Lit(1, 10), !.shares_outstanding = R(3)] }

\* one set of marketing arguments
MarketingSample ==
    [ marketing_spend |-> R(1000), new_customers_acquired |-> R(1),
      total_customers_start_period |-> R(2), total_customers_end_period |-> R(1),
      avg_revenue_per_user_monthly |-> Lit(3000, 1), gross_margin_pct |-> Lit(1, 1),
      expansion_revenue |-> R(1) ]

\* the values the marketing form starts with (app.py 169-177)
MarketingForm ==
    [ marketing_spend |-> R(75000), new_customers_acquired |-> R(300),
      total_customers_start_period |-> R(2000), total_customers_end_period |-> R(2200),
      avg_revenue_per_user_monthly |-> Lit(150, 1), gross_margin_pct |-> Lit(65, 100),
      expansion_revenue |-> R(12000) ]

\* the parameters of analyze_marketing_performance other than Revenue
\* (lines 149-153): counts and amounts as ints, the two rates as floats
MarketingInputs ==
    [ marketing_spend : Vals({0, 1000}),
      new_customers_acquired : Vals({0, 1}),
      total_customers_start_period : Vals({0, 1, 2}),
      total_customers_end_period : Vals({0, 1, 3}),
      avg_revenue_per_user_monthly : {Lit(0, 1), Lit(2999, 1), Lit(3000, 1)},
      gross_margin_pct : {Lit(0, 1), Lit(1, 1), Lit(1, 2)},
      expansion_revenue : Vals({0}) ]
    \cup { MarketingSample,
           MarketingForm,
           \* churn 1/2000 and 3/2000: ties of the one-decimal percentage
           [MarketingForm EXCEPT !.new_customers_acquired = R(1),
                                 !.total_customers_end_period = R(2000)],
           [MarketingForm EXCEPT !.new_customers_acquired = R(3),
                                 !.total_customers_end_period = R(2000)],
           \* (1 / (5/3)) / (1/5): a quotient one bit below 3
           [ marketing_spend |-> R(1), new_customers_acquired |-> R(5),
             total_customers_start_period |-> R(3), total_customers_end_period |-> R(3),
             avg_revenue_per_user_monthly |-> R(1), gross_margin_pct |-> R(1),
             expansion_revenue |-> R(0) ],
           [MarketingSample EXCEPT !.avg_revenue_per_user_monthly = R(3000),
                                   !.gross_margin_pct = R(1),
                                   !.total_customers_start_period = R(1),
                                   !.new_customers_acquired = R(0),
                                   !.total_customers_end_period = R(3)] }

\* the financial arguments of the orchestration runs
FinancialSamples ==
    { FinancialSample,
      [FinancialSample EXCEPT !.Revenue = R(0)],
      [FinancialSample EXCEPT !.shareholders_equity = R(-1), !.accounts_payable = R(0)] }

\* the marketing arguments of the orchestration runs
MarketingSamples ==
    { MarketingSample,
      [MarketingSample EXCEPT !.total_customers_end_period = R(3),
                              !.gross_margin_pct = Lit(1, 2)] }

\* os.environ with nothing set: a variable is None (unset) or <<value>>
NoEnv ==
    [ LLM_PROVIDER |-> None, GOOGLE_API_KEY |-> None, GEMINI_API_KEY |-> None,
      OPENAI_API_KEY |-> None, DEEPSEEK_API_KEY |-> None ]

\* a local backend that needs no key
OllamaEnv == [NoEnv EXCEPT !.LLM_PROVIDER = <<<<"O", "L", "L", "A", "M", "A">>>>]

\* the environments a process starts in (.env, load_dotenv at line 10)
Environments ==
    { OllamaEnv,
      [NoEnv EXCEPT !.GEMINI_API_KEY = <<"key1">>],
      [NoEnv EXCEPT !.LLM_PROVIDER = <<<<"D", "e", "e", "p", "S", "e", "e", "k">>>>,
                    !.DEEPSEEK_API_KEY = <<"key1">>],
      [NoEnv EXCEPT !.LLM_PROVIDER = <<openai>>],
      [NoEnv EXCEPT !.LLM_PROVIDER = <<openai>>, !.OPENAI_API_KEY = <<"">>],
      [NoEnv EXCEPT !.LLM_PROVIDER = <<<<"C", "l", "a", "u", "d", "e">>>>],
      [NoEnv EXCEPT !.LLM_PROVIDER = <<<<>>>>, !.GEMINI_API_KEY = <<"key1">>] }

\* the narrative texts the collaborator returns
Texts == {"report A", "report B"}

\* the errors a request raises
GenerationErrors == {"APIError", "ConnectionError"}

\* entry-point invocations in one process
MaxRuns == 2

----------------------------------------------------------------------------
(* The state machine.                                                      *)

\* a run that starts: fresh locals, the process-wide client as it is
NewRun ==
    [ pc |-> "idle", frame |-> EmptyFrame, calls |-> <<>>, result |-> NoResult,
      client |-> llm_client ]

\* the run in progress
ThisRun ==
    [ pc |-> pc, frame |-> frame, calls |-> calls, result |-> result,
      client |-> llm_client ]

Commit(m) ==
    /\ pc' = m.pc
    /\ frame' = m.frame
    /\ calls' = m.calls
    /\ result' = m.result
    /\ llm_client' = m.client

\* the form layer calls an entry point (app.py 268-283) when none is running
Invoke(e) ==
    /\ pc \in {"idle", "done"}
    /\ runs < MaxRuns
    /\ runs' = runs + 1
    /\ entry' = e
    /\ UNCHANGED <<environ, args, session_state>>

\* analyze_business, lines 198-236, up to its first call (inside financial_analysis)
analyze_business ==
    /\ Invoke("analyze_business")
    /\ Commit(financial_analysis_call(NewRun, environ, args.financial))

\* financial_analysis, lines 79-146, up to its call
financial_analysis ==
    /\ Invoke("financial_analysis")
    /\ Commit(financial_analysis_call(NewRun, environ, args.financial))

\* analyze_marketing_performance, lines 149-195, up to its call
analyze_marketing_performance ==
    /\ Invoke("analyze_marketing_performance")
    /\ Commit(analyze_marketing_performance_call(NewRun, environ, MarketingArgs(args)))

\* the pending request returns a text (llm_client.py 80-106); the entry point
\* runs on to its next call or to its return
LLMReturns ==
    \E t \in Texts :
        /\ pc = "await"
        /\ Commit(resume([ThisRun EXCEPT !.calls[Len(calls)].status = "returned",
                                         !.calls[Len(calls)].response = t],
                         environ, entry, args, t))
        /\ UNCHANGED <<environ, args, entry, runs, session_state>>

\* the pending request raises (llm_client.py 80-106)
LLMRaises ==
    \E err \in GenerationErrors :
        /\ pc = "await"
        /\ Commit(propagate([ThisRun EXCEPT !.calls[Len(calls)].status = "raised",
                                            !.calls[Len(calls)].error = err],
                            environ, entry, args, err))
        /\ UNCHANGED <<environ, args, entry, runs, session_state>>

\* the session before the first rerun (init_session_state, app.py 53-58) and
\* the widgets at their defaults
NoSession ==
    [ api_configured |-> FALSE, provider |-> gemini, api_key |-> "",
      run_analysis |-> FALSE, analysis_type |-> "Full Analysis", error |-> "" ]

InitRun ==
    /\ llm_client = None
    /\ pc = "idle"
    /\ entry = "none"
    /\ frame = EmptyFrame
    /\ calls = <<>>
    /\ result = NoResult
    /\ runs = 0
    /\ session_state = NoSession

\* the three entry points under the environments and sample arguments
Init ==
    /\ InitRun
    /\ environ \in Environments
    /\ args \in [financial : FinancialSamples, marketing : MarketingSamples]

Next ==
    \/ analyze_business
    \/ financial_analysis
    \/ analyze_marketing_performance
    \/ LLMReturns
    \/ LLMRaises

Spec == Init /\ [][Next]_vars

\* the inputs of the two ratio functions: the financial arguments, and the
\* marketing arguments with a positive and a zero Revenue
FinancialRuns == [financial : FinancialInputs, marketing : {MarketingSample}]

MarketingRuns ==
    [financial : {FinancialSample}, marketing : MarketingInputs]
    \cup [ financial : {[FinancialSample EXCEPT !.Revenue = R(0)]},
           marketing : {MarketingSample, MarketingForm} ]

RatioInputs == FinancialRuns \cup MarketingRuns

InitRatios ==
    /\ InitRun
    /\ environ = OllamaEnv
    /\ args \in RatioInputs

\* each input is analysed once, by the function it is an input of
NextRatios ==
    \/ runs = 0 /\ args \in FinancialRuns /\ financial_analysis
    \/ runs = 0 /\ args \in MarketingRuns /\ analyze_marketing_performance
    \/ LLMReturns
    \/ LLMRaises

SpecRatios == InitRatios /\ [][NextRatios]_vars

----------------------------------------------------------------------------
(* app.py: the sidebar, the run button and the rerun of the script.        *)

\* the options of the "LLM Provider" selectbox (app.py 66-71)
SidebarProviders == <<gemini, openai, ollama, deepseek>>

\* the texts a user types into the API key field; "" is the empty field
ApiKeys == {"", "key1", "key2"}

\* the options of the "Analysis Type" radio (app.py 251-255)
AnalysisTypes == {"Full Analysis", "Financial Only", "Marketing Only"}

\* the environment variable configure_llm writes the key of a provider to
KeyVariable(provider) ==
    CASE provider = gemini -> "GOOGLE_API_KEY"
      [] provider = openai -> "OPENAI_API_KEY"
      [] OTHER -> "DEEPSEEK_API_KEY"

\* configure_llm, app.py 61-108: the environment it leaves and what it returns
\* ("api_key or provider == 'ollama'", as a truth value)
configure_llm(env, provider, api_key) ==
    [ environ |->
          IF provider \in {gemini, openai, deepseek}
          THEN IF api_key # ""
               THEN [env EXCEPT ![KeyVariable(provider)] = <<api_key>>,
                                !.LLM_PROVIDER = <<provider>>]
               ELSE env
          ELSE [env EXCEPT !.LLM_PROVIDER = <<provider>>],
      returns |-> api_key # "" \/ provider = ollama ]

\* the run gate without the api_configured test
run_allowed_ungated(run_analysis, api_configured) == run_analysis

\* app.py 261-264: the analysis runs when the button was pressed and the
\* session is configured
run_allowed(run_analysis, api_configured) == run_analysis /\ api_configured

\* app.py 268-283: the entry point an analysis type runs
EntryPoint(analysis_type) ==
    CASE analysis_type = "Full Analysis" -> "analyze_business"
      [] analysis_type = "Financial Only" -> "financial_analysis"
      [] OTHER -> "analyze_marketing_performance"

\* app.py 268-283: the entry point up to its first call, in environment env
Start(e, env) ==
    IF e = "analyze_marketing_performance"
    THEN analyze_marketing_performance_call(NewRun, env, MarketingArgs(args))
    ELSE financial_analysis_call(NewRun, env, args.financial)

\* main, app.py 219-292: one rerun of the script with the widget values of the
\* sidebar, the radio and the button.  The sidebar is configured first; a
\* pressed button then runs the analysis if the session is configured and
\* shows an error if it is not.  The output of the rerun before is gone.
main(provider, api_key, run_analysis, analysis_type) ==
    LET c == configure_llm(environ, provider, api_key)
        go == run_allowed(run_analysis, c.returns)
    IN  /\ pc \in {"idle", "done"}
        /\ go => runs < MaxRuns
        /\ environ' = c.environ
        /\ session_state' =
               [ api_configured |-> c.returns, provider |-> provider,
                 api_key |-> api_key, run_analysis |-> run_analysis,
                 analysis_type |-> analysis_type,
                 error |-> IF run_analysis /\ ~c.returns
                           THEN "Please configure your API key" ELSE "" ]
        /\ IF go
           THEN /\ runs' = runs + 1
                /\ entry' = EntryPoint(analysis_type)
                /\ Commit(Start(EntryPoint(analysis_type), c.environ))
           ELSE /\ UNCHANGED runs
                /\ entry' = "none"
                /\ Commit(NewRun)
        /\ UNCHANGED args

\* Any interaction with a widget reruns the script with the values the
\* widgets then have; the button is True only in the rerun its press causes.

\* the user picks a provider in the selectbox; the key field of another
\* provider is another widget and comes up empty
SelectProvider ==
    \E i \in DOMAIN SidebarProviders :
        main(SidebarProviders[i],
             IF SidebarProviders[i] = session_state.provider
             THEN session_state.api_key ELSE "",
             FALSE, session_state.analysis_type)

\* the user types into the key field of the selected provider (ollama has none)
EnterApiKey ==
    \E api_key \in ApiKeys :
        /\ session_state.provider # ollama
        /\ main(session_state.provider, api_key, FALSE, session_state.analysis_type)

\* the user picks an analysis type
SelectAnalysisType ==
    \E analysis_type \in AnalysisTypes :
        main(session_state.provider, session_state.api_key, FALSE, analysis_type)

\* the user presses "Run Analysis"
PressRunAnalysis ==
    main(session_state.provider, session_state.api_key, TRUE,
         session_state.analysis_type)

\* the environments the app starts in: nothing set, or a .env that names a
\* provider without its key
AppEnvironments == {NoEnv, [NoEnv EXCEPT !.LLM_PROVIDER = <<openai>>]}

InitApp ==
    /\ InitRun
    /\ environ \in AppEnvironments
    /\ args = [financial |-> FinancialSample, marketing |-> MarketingSample]

NextApp ==
    \/ SelectProvider
    \/ EnterApiKey
    \/ SelectAnalysisType
    \/ PressRunAnalysis
    \/ LLMReturns
    \/ LLMRaises

SpecApp == InitApp /\ [][NextApp]_vars

----------------------------------------------------------------------------
(* Properties of the orchestration (Spec).                                 *)

\* the templates of the calls logged so far
Templates == [i \in DOMAIN calls |-> calls[i].template]

\* some logged call failed
SomeCallFailed == \E i \in DOMAIN calls : calls[i].status = "raised"

\* C1: in a full-analysis run a failed call is the last call of the run: after
\* a failed financial call there is no marketing and no CEO call, after a
\* failed marketing call no CEO call, and the run has ended with that error
\* raised to the caller of analyze_business.
C1_ShortCircuit ==
    entry = "analyze_business" =>
        \A i \in DOMAIN calls :
            calls[i].status = "raised" =>
                /\ i = Len(calls)
                /\ calls[i].template = "CFO" =>
                       \A j \in DOMAIN calls : calls[j].template \notin {"CMO", "CEO"}
                /\ calls[i].template = "CMO" =>
                       \A j \in DOMAIN calls : calls[j].template # "CEO"
                /\ pc = "done"
                /\ result.status = "raised"
                /\ result.error = calls[i].error

\* C1 witness: the marketing request of a full run failed after the financial
\* call had returned
C1_Witness ==
    /\ entry = "analyze_business"
    /\ Templates = <<"CFO", "CMO">>
    /\ calls[1].status = "returned"
    /\ calls[2].sent /\ calls[2].status = "raised"
    /\ result.status = "raised"

\* C2: in a full-analysis run the calls are issued in the order financial,
\* marketing, CEO, each only after the previous one returned, and the CEO
\* prompt embeds the texts the financial and the marketing call of this run
\* returned, and nothing else.
C2_OrderAndCeoPrompt ==
    entry = "analyze_business" =>
        /\ Len(calls) <= 3
        /\ Templates = SubSeq(<<"CFO", "CMO", "CEO">>, 1, Len(calls))
        /\ \A i \in DOMAIN calls : i < Len(calls) => calls[i].status = "returned"
        /\ Len(calls) = 3 =>
               /\ calls[3].reports = <<calls[1].response, calls[2].response>>
               /\ calls[3].data = <<>>

\* C2 witness: the CEO call of a run whose two narratives differ
C2_Witness ==
    /\ entry = "analyze_business"
    /\ Len(calls) = 3
    /\ calls[3].sent
    /\ calls[1].response = "report A"
    /\ calls[2].response = "report B"

FiveEntries ==
    {"financial_metrics", "financial_report", "marketing_metrics", "marketing_report",
     "ceo_report"}

\* C3: analyze_business hands its caller either all five entries, after three
\* calls that returned, or an error and no value; while it runs it has handed
\* over nothing.
C3_AllOrNothing ==
    entry = "analyze_business" =>
        /\ pc # "done" => result = NoResult
        /\ pc = "done" =>
               \/ /\ result.status = "returned"
                  /\ DOMAIN result.value[1] = FiveEntries
                  /\ Len(calls) = 3
                  /\ \A i \in DOMAIN calls : calls[i].status = "returned"
                  /\ result.value[1].financial_metrics = frame.financial_results[1]
                  /\ result.value[1].financial_report = calls[1].response
                  /\ result.value[1].marketing_metrics = frame.marketing_results[1]
                  /\ result.value[1].marketing_report = calls[2].response
                  /\ result.value[1].ceo_report = calls[3].response
               \/ /\ result.status = "raised"
                  /\ result.value = None
                  /\ SomeCallFailed

\* C3 witness: the CEO call failed after both reports were in hand, and the
\* caller got nothing
C3_Witness ==
    /\ entry = "analyze_business"
    /\ pc = "done"
    /\ Len(calls) = 3
    /\ calls[3].status = "raised"
    /\ frame.financial_metrics # None
    /\ frame.marketing_metrics # None
    /\ result.value = None

\* the single-report entry points
SingleEntries == {"financial_analysis", "analyze_marketing_performance"}

\* the report a single-report entry point computed, if any
ComputedReport ==
    IF entry = "financial_analysis" THEN frame.financial_results
    ELSE frame.marketing_results

\* C4 as stated: when the call of financial_analysis or of
\* analyze_marketing_performance fails, the metrics report reaches the caller.
C4_MetricsReachCaller ==
    entry \in SingleEntries /\ pc = "done" /\ SomeCallFailed =>
        /\ result.value # None
        /\ result.value[1][1] = ComputedReport[1]

\* C4 amended: the metrics report is complete before the call is made, whatever
\* becomes of the call, and it is the data of the prompt; when the call fails
\* the error is raised and the caller receives no value, the report included.
C4_MetricsComputedNotReturned ==
    entry \in SingleEntries =>
        /\ calls # <<>> =>
               /\ ComputedReport # None
               /\ calls[1].data = ComputedReport
        /\ pc = "done" /\ SomeCallFailed =>
               /\ result.status = "raised"
               /\ result.value = None

\* C4 witness: the request of financial_analysis failed with the report computed
C4_Witness ==
    /\ entry = "financial_analysis"
    /\ pc = "done"
    /\ calls[1].sent /\ calls[1].status = "raised"
    /\ frame.financial_results # None
    /\ result.value = None

\* C5: no call is repeated: a financial-only and a marketing-only run make
\* exactly one call, a full run at most three and exactly three when none
\* fails; a failed call is the last of its run and its error is the error the
\* caller gets.
C5_NoRetry ==
    /\ entry \in SingleEntries => Len(calls) = 1
    /\ entry = "analyze_business" =>
           /\ Len(calls) \in 1..3
           /\ pc = "done" /\ ~SomeCallFailed => Len(calls) = 3
    /\ \A i, j \in DOMAIN calls : calls[i].template = calls[j].template => i = j
    /\ \A i \in DOMAIN calls :
           calls[i].status = "raised" =>
               /\ i = Len(calls)
               /\ result = [status |-> "raised", error |-> calls[i].error, value |-> None]

\* C5 witness: the one request of a financial-only run failed and its error
\* reached the caller
C5_Witness ==
    /\ entry = "financial_analysis"
    /\ pc = "done"
    /\ Len(calls) = 1
    /\ calls[1].sent
    /\ calls[1].error = "ConnectionError"
    /\ result.error = "ConnectionError"

----------------------------------------------------------------------------
(* Properties of the ratio functions (SpecRatios).                         *)

\* financial_analysis has passed its ratio computation
FinancialRan == entry = "financial_analysis"

\* analyze_marketing_performance has passed its metrics computation
MarketingRan == entry = "analyze_marketing_performance"

\* C6: every ratio of the financial report whose designated denominator is 0
\* is reported as exactly 0, whatever the other inputs are.
C6_ZeroGuard ==
    FinancialRan /\ frame.financial_results # None =>
        LET a == args.financial
            l == frame.financial_ratios[1]
            r == frame.financial_results[1]
        IN  /\ IsZero(l.Current_Liab) =>
                   /\ r.Liquidity.Current = Zero
                   /\ r.Liquidity.Quick = Zero
                   /\ r.Liquidity.Cash = Zero
            /\ IsZero(a.COGS) => r.Liquidity.Interval = Zero
            /\ IsZero(l.Total_Assets) =>
                   /\ r.Solvency["Debt Ratio"] = Zero
                   /\ r.Turnover["Total Asset"] = Zero
                   /\ r.Profitability.ROA = Zero
                   /\ r.DuPont_Breakdown.Efficiency_Lever = Zero
            /\ IsZero(a.shareholders_equity) =>
                   /\ r.Solvency.Multiplier = Zero
                   /\ r.Profitability.ROE = Zero
                   /\ r.DuPont_Breakdown.Leverage_Lever = Zero
                   /\ r.Market["Market/Book"] = Zero
            /\ IsZero(Add(a.long_term_debt, a.shareholders_equity)) =>
                   r.Solvency.LTD = Zero
            /\ IsZero(a.Interest_Expense) =>
                   /\ r.Solvency.TIE = Zero
                   /\ r.Solvency["Cash Coverage"] = Zero
            /\ IsZero(l.NWC) => r.Turnover.NWC = Zero
            /\ IsZero(a.fixed_assets_ppe) => r.Turnover["Fixed Asset"] = Zero
            /\ IsZero(a.Revenue) =>
                   /\ r.Profitability["Gross Margin"] = Zero
                   /\ r.Profitability["Profit Margin"] = Zero
                   /\ r.DuPont_Breakdown.Profitability_Lever = Zero
                   /\ r.Market["Price/Sales"] = Zero
            /\ IsZero(a.Net_Income) \/ IsZero(a.shares_outstanding) => r.Market["P/E"] = Zero
            /\ IsZero(a.EBITDA) => r.Market.EV_EBITDA = Zero
            /\ IsZero(a.inventory) => r.Operational.Inv_Turnover = Zero
            /\ IsZero(a.accounts_receivable) => r.Operational.Rec_Turnover = Zero
            /\ IsZero(l.inv_turnover) => r.Operational.DSI = Zero
            /\ IsZero(l.rec_turnover) => r.Operational.DSO = Zero

\* C6 witness: current liabilities cancel to 0 (payables 1, accrued -1) with
\* current assets present, and the current ratio is reported as 0
C6_Witness ==
    /\ FinancialRan
    /\ frame.financial_results # None
    /\ args.financial.accounts_payable = R(1)
    /\ frame.financial_ratios[1].Current_Liab = Zero
    /\ frame.financial_ratios[1].Current_Assets = R(3)
    /\ frame.financial_results[1].Liquidity.Current = Zero

\* |x - y| <= |y| / 2^50, exactly: x and y are equal up to the rounding of a
\* few double operations
Close(x, y) ==
    LET d == Aligned(x, y, ~y.neg)
    IN  CmpAbs(Num("float", FALSE, d.n, d.e + 50), y) <= 0

\* C7 as stated: for all inputs the product of the three levers equals
\* Net_Income / shareholders_equity (0 when equity is 0), before rounding
\* (read up to the rounding of the double operations).
C7_DuPontEqualsRoe ==
    FinancialRan /\ frame.financial_ratios # None =>
        Close(frame.financial_ratios[1].dupont_roe, frame.financial_ratios[1].roe)

\* C7 amended: the product of the levers equals the direct ROE, up to the
\* rounding of the double operations, whenever Revenue and total assets are
\* both non-zero; when either is 0 its lever is guarded to 0 and the
\* calculated ROE is 0, whatever the direct ROE is.
C7_DuPontIdentityGuarded ==
    FinancialRan /\ frame.financial_ratios # None =>
        LET a == args.financial
            l == frame.financial_ratios[1]
        IN  IF Truthy(a.Revenue) /\ Truthy(l.Total_Assets)
            THEN Close(l.dupont_roe, l.roe)
            ELSE IsZero(l.dupont_roe)

\* C7 witness: the values of the form: a non-zero ROE (0.3397) that the
\* product of the levers (0.33969999999999995) reproduces up to rounding
C7_Witness ==
    /\ FinancialRan
    /\ frame.financial_ratios # None
    /\ args.financial = FinancialForm
    /\ frame.financial_ratios[1].roe = Lit(3397, 10000)
    /\ frame.financial_ratios[1].dupont_roe # frame.financial_ratios[1].roe
    /\ Close(frame.financial_ratios[1].dupont_roe, frame.financial_ratios[1].roe)

\* C8: in every report of analyze_marketing_performance the Status is
\* "Healthy" exactly when the LTV_CAC_Ratio of that report is at least 3.
C8_StatusMatchesReportedRatio ==
    MarketingRan /\ frame.marketing_results # None =>
        LET u == frame.marketing_results[1].Unit_Economics
        IN  /\ u.Status \in {"Healthy", "Needs Optimization"}
            /\ u.Status = "Healthy" <=> Geq(u.LTV_CAC_Ratio, R(3))

\* the leaves of a report that are numbers, and those that are percentages
Leaves(r) ==
    {<<sec, k>> \in UNION {{sec} \X DOMAIN r[sec] : sec \in DOMAIN r} : k \notin StringKeys}

Percentages(r) ==
    {<<sec, k>> \in UNION {{sec} \X DOMAIN r[sec] : sec \in DOMAIN r} :
         k \in StringKeys \ {"Status"}}

\* the ratios were computed without an exception and every leaf of the report
\* is a finite number
Defined(l, r) ==
    /\ l # None /\ r # None
    /\ ~Raises(l[1])
    /\ \A p \in Leaves(r[1]) : IsFinite(r[1][p[1]][p[2]])
    /\ \A p \in Percentages(r[1]) : r[1][p[1]][p[2]].word = ""

\* C9: for all inputs, zero and negative ones included, neither ratio
\* computation divides by zero: no arithmetic exception is raised, every
\* local ratio and every leaf of the report is a number.
C9_NoDivisionByZero ==
    /\ result.error \notin {"ZeroDivisionError", "OverflowError"}
    /\ FinancialRan => Defined(frame.financial_ratios, frame.financial_results)
    /\ MarketingRan => Defined(frame.marketing_ratios, frame.marketing_results)

\* ARPU * gross_margin of the marketing arguments
UnitMargin ==
    Mul(args.marketing.avg_revenue_per_user_monthly, args.marketing.gross_margin_pct)

\* C10 as stated: LTV = ARPU * gross_margin / churn_rate whenever churn_rate
\* is not 0, negative churn included, and LTV is 0 only when churn_rate is 0
\* (read for a non-zero ARPU * gross_margin).
C10_LtvWheneverChurnNonZero ==
    MarketingRan /\ frame.marketing_ratios # None =>
        LET l == frame.marketing_ratios[1]
        IN  /\ Truthy(l.churn_rate) => l.ltv = Div(UnitMargin, l.churn_rate)
            /\ Truthy(UnitMargin) /\ IsZero(l.ltv) => IsZero(l.churn_rate)

\* C10 amended: LTV = ARPU * gross_margin / churn_rate whenever churn_rate is
\* greater than 0, and LTV is 0 whenever churn_rate is 0 or negative.
C10_LtvPositiveChurnOnly ==
    MarketingRan =>
        /\ frame.marketing_ratios # None
        /\ LET l == frame.marketing_ratios[1]
           IN  IF Pos(l.churn_rate)
               THEN l.ltv = Div(UnitMargin, l.churn_rate)
               ELSE l.ltv = Zero

\* C10 witness: more customers at the end than start + new (churn -2.0) with
\* a positive unit margin, and an LTV of 0
C10_Witness ==
    /\ MarketingRan
    /\ frame.marketing_ratios # None
    /\ frame.marketing_ratios[1].churn_rate = Lit(-2, 1)
    /\ UnitMargin = Lit(3000, 1)
    /\ frame.marketing_ratios[1].ltv = Zero

\* the report the Metrics Engine computes from the financial arguments
ComputedFinancial == financial_results(financial_ratios(args.financial))

\* the report the Metrics Engine computes from the marketing arguments
ComputedMarketing == marketing_results(marketing_ratios(MarketingArgs(args)))

\* C11: prompt construction only serializes: the data of every CFO and CMO
\* prompt is, leaf for leaf, the report computed from the arguments (the
\* serialized text reads back as that report), the report object is the same
\* after the call as before, and it is the report the caller receives.
C11_PromptOnlySerializes ==
    LET f == ComputedFinancial
        k == ComputedMarketing
    IN  /\ \A i \in DOMAIN calls :
               /\ calls[i].template = "CFO" =>
                      /\ calls[i].data = <<f>>
                      /\ loads(calls[i].json) = f
                      /\ frame.financial_results = <<f>>
               /\ calls[i].template = "CMO" =>
                      /\ calls[i].data = <<k>>
                      /\ loads(calls[i].json) = k
                      /\ frame.marketing_results = <<k>>
        /\ result.status = "returned" =>
               CASE entry = "financial_analysis" -> result.value[1][1] = f
                 [] entry = "analyze_marketing_performance" -> result.value[1][1] = k
                 [] OTHER ->
                        /\ result.value[1].financial_metrics = f
                        /\ result.value[1].marketing_metrics = k

\* C11 witness: financial_analysis returned the report of the values of the
\* form, whose profit margin 0.16985 (a double just above it) is the lever
\* 0.1699 of the report and the text 0.1699 in the prompt of its call
C11_Witness ==
    /\ FinancialRan
    /\ result.status = "returned"
    /\ args.financial = FinancialForm
    /\ calls[1].sent
    /\ calls[1].json[17] =
           <<"DuPont_Breakdown", "Profitability_Lever",
             Text("", <<0>>, <<1, 6, 9, 9>>, <<>>, "", "")>>
    /\ result.value[1][1].DuPont_Breakdown.Profitability_Lever = Lit(1699, 10000)

----------------------------------------------------------------------------
(* Properties of the client under the sidebar (SpecApp, Spec).             *)

\* C12: every request call_llm dispatches goes through a client that was
\* initialised for the provider selected at the time of the call: the
\* provider of the environment, which is the provider of the sidebar.
C12_ClientOfSelectedProvider ==
    \A i \in DOMAIN calls :
        calls[i].sent =>
            /\ calls[i].provider = session_state.provider
            /\ calls[i].client[1].provider = calls[i].provider

\* a client as a completed _init_llm builds it: for a known provider, with
\* the key of that provider unless the provider is ollama
BuiltByInit(client) ==
    /\ client.provider \in Providers
    /\ client.provider # ollama => client.api_key # ""

\* C13: a failed initialisation leaves no client behind: a call whose
\* initialisation raised sent no request and left _llm_client None; the client
\* is non-None only as a completed initialisation built it; and every call
\* made while there is no client attempts the initialisation again.
C13_FailedInitLeavesNoClient ==
    /\ llm_client # None => BuiltByInit(llm_client[1])
    /\ \A i \in DOMAIN calls :
           /\ calls[i].init_called /\ calls[i].error = "ValueError" =>
                  /\ calls[i].client = None
                  /\ ~calls[i].sent
                  /\ llm_client = None
           /\ calls[i].client = None =>
                  /\ calls[i].init_called
                  /\ calls[i].error = "ValueError"
           /\ calls[i].sent => BuiltByInit(calls[i].client[1])
    /\ init_llm(environ).error # "" /\ pc # "idle" =>
           /\ llm_client = None
           /\ Len(calls) = 1
           /\ calls[1].init_called
           /\ ~calls[1].sent
           /\ result = [status |-> "raised", error |-> "ValueError", value |-> None]

\* C13 witness: openai without OPENAI_API_KEY: the second analysis of the
\* process attempted the initialisation again, failed again and sent nothing
C13_Witness ==
    /\ runs = 2
    /\ llm_provider(environ) = openai
    /\ ApiKey(environ, openai) = ""
    /\ Len(calls) = 1
    /\ calls[1].init_called
    /\ calls[1].error = "ValueError"
    /\ ~calls[1].sent
    /\ llm_client = None

\* C14: after every rerun api_configured is true exactly when the selected
\* provider is ollama or a non-empty key was entered for it; a press of Run
\* Analysis with api_configured false invokes no entry point and makes no
\* call (the error message is shown instead), and an entry point runs only in
\* a configured session, whose environment lets the client initialise.
C14_NoAnalysisUnconfigured ==
    /\ session_state.api_configured <=>
           \/ session_state.provider = ollama
           \/ session_state.api_key # ""
    /\ session_state.run_analysis /\ ~session_state.api_configured =>
           /\ entry = "none"
           /\ pc = "idle"
           /\ calls = <<>>
           /\ result = NoResult
           /\ session_state.error # ""
    /\ entry # "none" =>
           /\ session_state.run_analysis
           /\ session_state.api_configured
           /\ llm_provider(environ) = session_state.provider
           /\ init_llm(environ).error = ""

\* C14 witness: Run Analysis pressed with the key field of deepseek empty,
\* after an earlier analysis of this process had built a client
C14_Witness ==
    /\ session_state.run_analysis
    /\ session_state.provider = deepseek
    /\ session_state.api_key = ""
    /\ ~session_state.api_configured
    /\ llm_client # None
    /\ runs = 1
    /\ calls = <<>>

\* C15: every request uses the credentials currently entered: the client a
\* request of a keyed provider goes through was built with the key most
\* recently entered for that provider, which is the key of the sidebar and
\* of the environment at the time of the call.
C15_ClientHasCurrentKey ==
    \A i \in DOMAIN calls :
        /\ calls[i].sent
        /\ calls[i].provider # ollama
        /\ calls[i].client[1].provider = calls[i].provider
        => /\ ApiKey(environ, calls[i].provider) = session_state.api_key
           /\ calls[i].client[1].api_key = session_state.api_key

====
